---- MODULE Spec2Model ----
(***************************************************************************)
(* Model of src/src/contexts/AuthContext.jsx: the AuthProvider component   *)
(* (session store backed by localStorage) and logUserActivity (the         *)
(* bounded activity log kept under the localStorage key "userLogs").       *)
(*                                                                         *)
(* A storage access is identified by the source line it stands on.  A      *)
(* handler is run with a set F of such lines: the access on line s throws  *)
(* exactly when s \in F (QuotaExceededError, SecurityError, ...).  In one  *)
(* behaviour at most MaxFaults single accesses throw, or the storage is    *)
(* unavailable during one call (every access of the call throws).         *)
(* mounted tells whether the last render of AuthProvider completed: when   *)
(* it threw there is no component, user and loading hold no state, no      *)
(* child is rendered and no effect runs.                                   *)
(*                                                                         *)
(* Specifications: Spec (the component from its construction), SpecMount   *)
(* (Spec with the mount effect scheduled fairly), SpecRole (Spec with the  *)
(* role queries), SpecLogout (the component after a first login),          *)
(* SpecAlternate (logins and logouts in turn, no failures), SpecRecord     *)
(* (logUserActivity called directly) and SpecTabs (two tabs running        *)
(* logUserActivity on the same storage).                                   *)
(***************************************************************************)
EXTENDS Integers, Sequences, FiniteSets, TLC

VARIABLES localStorage, user, loading, now, draws, console, call, ncalls,
          nfaults, tabs, mounted

vars ==
  <<localStorage, user, loading, now, draws, console, call, ncalls, nfaults,
    tabs, mounted>>

----------------------------------------------------------------------------
(* Bounds of the model *)

\* handler calls explored in one behaviour
MaxCalls == 3
\* single storage accesses that throw in one behaviour
MaxFaults == 1
\* milliseconds the clock advances in one behaviour
MaxTicks == 1

\* slice(-100): the number of log entries kept
MaxLogs == 100

----------------------------------------------------------------------------
(* Values *)

\* what getItem returns for a key that is not stored, and a null field
NULL == "(null)"

\* JavaScript truthiness of a string-or-null value
Truthy(v) == v # NULL /\ v # ""

\* the value of `user` when it is null
NoUser == [isNull |-> TRUE]

AuthKeys == <<"token", "userRole", "userId", "email">>

\* String.prototype.includes
Includes(s, sub) ==
  \E i \in 1..(Len(s) - Len(sub) + 1) : SubSeq(s, i, i + Len(sub) - 1) = sub

\* Date.prototype.toISOString for a time of t milliseconds, 0 <= t < 1000
ToISOString(t) ==
  LET ms == ToString(t)
      pad == IF Len(ms) = 1 THEN "00" ELSE IF Len(ms) = 2 THEN "0" ELSE ""
  IN "1970-01-01T00:00:00." \o pad \o ms \o "Z"

\* Math.random(): the k-th value of the generator's sequence, in thousandths
MathRandom(k) == (k * 617 + 89) % 1000

\* Math.random().toString(36).substr(2, 9) of the k-th value, kept symbolic
RandomSuffix(k) == "r" \o ToString(MathRandom(k))

\* the emails a caller passes to login and signup
Emails == {"a@x.com", "admin@x.com", ""}

\* the subsets of S with at most n elements
RECURSIVE BoundedSubsets(_, _)
BoundedSubsets(S, n) ==
  IF n = 0
  THEN {{}}
  ELSE LET smaller == BoundedSubsets(S, n - 1)
       IN smaller \cup {X \cup {x} : X \in smaller, x \in S}

\* the sets of throwing storage accesses among the lines `sites` when n
\* more accesses may throw: up to n single accesses, or every access (the
\* storage is unavailable)
Faults(sites, n) ==
  BoundedSubsets(sites, n) \cup (IF n >= 1 THEN {sites} ELSE {})

\* the number of throwing accesses left after a call with throwing lines F
\* among `sites`; an unavailable storage uses them up
FaultsAfter(sites, F, n) ==
  IF F = sites THEN MaxFaults ELSE n + Cardinality(F)

----------------------------------------------------------------------------
(* The stored text of "userLogs" and JSON *)

\* A stored value of "userLogs": kind "absent" (no such key), "empty" (the
\* empty string), "garbage" (not JSON), "object" (JSON, but no array) or
\* "array" (the JSON text of the array arr of entries).
LogsText(kind, arr) == [kind |-> kind, arr |-> arr]

\* JSON.stringify(recentLogs)
JSONStringify(logs) == LogsText("array", logs)

\* localStorage.getItem("userLogs") || "[]"
LogsTextOrEmpty(text) ==
  IF text.kind \in {"absent", "empty"} THEN LogsText("array", <<>>) ELSE text

\* JSON.parse: throws on text that is not JSON
JSONParse(text) ==
  [ threw   |-> text.kind = "garbage",
    isArray |-> text.kind = "array",
    value   |-> text.arr ]

----------------------------------------------------------------------------
(* generateMockToken, getMockIpAddress *)

JwtHeader == "eyJhbGciOiJIUzI1NiIsInR5cCI6IkpXVCJ9"

\* header.payload.signature; the base64 text of payload and signature is
\* kept symbolic, the header is btoa('{"alg":"HS256","typ":"JWT"}')
\* (k: the number of the Math.random() call on line 73)
GenerateMockToken(t, k) ==
  JwtHeader \o "." \o "b64(sub=" \o ToString(t) \o ")" \o "."
            \o "b64(mock_signature_" \o RandomSuffix(k) \o ")"

\* (k: the number of the Math.random() call on line 86)
GetMockIpAddress(k) ==
  "192.168.1." \o ToString((MathRandom(k) * 254) \div 1000 + 1)

\* token.substring(0, 20) + "..."
TokenLabel(token) == SubSeq(token, 1, 20) \o "..."

----------------------------------------------------------------------------
(* logUserActivity *)

\* the entry built on lines 107-117 after k calls of Math.random()
NewLog(userId, username, role, action, tokenName, t, k) ==
  [ id         |-> ToString(t) \o RandomSuffix(k + 1),
    userId     |-> userId,
    username   |-> username,
    role       |-> role,
    action     |-> action,
    loginTime  |-> IF action = "login" THEN ToISOString(t) ELSE NULL,
    logoutTime |-> IF action = "logout" THEN ToISOString(t) ELSE NULL,
    ipAddress  |-> GetMockIpAddress(k + 2),
    tokenName  |-> IF Truthy(tokenName) THEN tokenName ELSE "N/A" ]

\* the predicate of findIndex on lines 122-123
IsOpenLoginOf(log, userId) ==
  log.userId = userId /\ log.action = "login" /\ ~Truthy(log.logoutTime)

\* a findIndex that never finds the open login entry
LoginLogIndexNever(existingLogs, userId) == -1

\* a findLastIndex: the last matching index, -1 if none
LoginLogIndexLast(existingLogs, userId) ==
  IF \E i \in 1..Len(existingLogs) : IsOpenLoginOf(existingLogs[i], userId)
  THEN CHOOSE i \in 1..Len(existingLogs) :
         /\ IsOpenLoginOf(existingLogs[i], userId)
         /\ \A j \in (i + 1)..Len(existingLogs) :
              ~IsOpenLoginOf(existingLogs[j], userId)
  ELSE -1

\* existingLogs.findIndex(...): the first matching index (from 1), -1 if none
LoginLogIndex(existingLogs, userId) ==
  IF \E i \in 1..Len(existingLogs) : IsOpenLoginOf(existingLogs[i], userId)
  THEN CHOOSE i \in 1..Len(existingLogs) :
         /\ IsOpenLoginOf(existingLogs[i], userId)
         /\ \A j \in 1..(i - 1) : ~IsOpenLoginOf(existingLogs[j], userId)
  ELSE -1

\* a closing that also stamps the entry with the time as its loginTime
CloseLoginLogRestamps(existingLogs, loginLogIndex, t) ==
  [existingLogs EXCEPT ![loginLogIndex] =
     [@ EXCEPT !.logoutTime = ToISOString(t), !.action = "logout",
               !.loginTime = ToISOString(t)]]

\* lines 128-129: the entry at loginLogIndex gets logoutTime and action
CloseLoginLog(existingLogs, loginLogIndex, t) ==
  [existingLogs EXCEPT ![loginLogIndex] =
     [@ EXCEPT !.logoutTime = ToISOString(t), !.action = "logout"]]

\* a reconciliation that drops a logout with no open login entry
ReconcileDropsUnmatched(existingLogs, newLog, userId, action, t) ==
  IF action = "logout"
  THEN LET loginLogIndex == LoginLogIndex(existingLogs, userId)
       IN IF loginLogIndex # -1
          THEN CloseLoginLog(existingLogs, loginLogIndex, t)
          ELSE existingLogs
  ELSE Append(existingLogs, newLog)

\* a reconciliation that pushes no second open login entry for a user
ReconcileOneOpenLogin(existingLogs, newLog, userId, action, t) ==
  IF action = "logout"
  THEN LET loginLogIndex == LoginLogIndex(existingLogs, userId)
       IN IF loginLogIndex # -1
          THEN CloseLoginLog(existingLogs, loginLogIndex, t)
          ELSE Append(existingLogs, newLog)
  ELSE IF LoginLogIndex(existingLogs, userId) # -1
       THEN existingLogs
       ELSE Append(existingLogs, newLog)

\* lines 119-137 on an array: update the open login entry or push newLog
Reconcile(existingLogs, newLog, userId, action, t) ==
  IF action = "logout"
  THEN LET loginLogIndex == LoginLogIndex(existingLogs, userId)
       IN IF loginLogIndex # -1
          THEN CloseLoginLog(existingLogs, loginLogIndex, t)
          ELSE Append(existingLogs, newLog)
  ELSE Append(existingLogs, newLog)

\* a log that is never cut
RecentLogsUncut(existingLogs) == existingLogs

\* slice(0, 100): a cut that keeps the oldest entries
RecentLogsOldest(existingLogs) ==
  IF Len(existingLogs) <= MaxLogs
  THEN existingLogs
  ELSE SubSeq(existingLogs, 1, MaxLogs)

\* existingLogs.slice(-100)
RecentLogs(existingLogs) ==
  IF Len(existingLogs) <= MaxLogs
  THEN existingLogs
  ELSE SubSeq(existingLogs, Len(existingLogs) - MaxLogs + 1, Len(existingLogs))

\* a saving that reads "userLogs" again instead of using what was loaded
SaveLogsFresh(ls, loaded, userId, username, role, action, tokenName, t, k, F) ==
  LET fresh  == JSONParse(LogsTextOrEmpty(ls.userLogs))
      newLog == NewLog(userId, username, role, action, tokenName, t, k)
  IN IF ~fresh.isArray \/ 143 \in F
     THEN [ ls |-> ls, console |-> {"Failed to log user activity:"},
            draws |-> k + 2 ]
     ELSE [ ls |-> [ls EXCEPT !.userLogs =
                      JSONStringify(RecentLogs(
                        Reconcile(fresh.value, newLog, userId, action, t)))],
            console |-> {"User activity logged: " \o action \o " for "
                           \o username},
            draws |-> k + 2 ]

\* lines 102-104 with throwing lines F: read "userLogs" and parse it
LoadLogs(ls, F) ==
  LET parsed == JSONParse(LogsTextOrEmpty(ls.userLogs))
  IN [ threw   |-> 102 \in F \/ parsed.threw,
       isArray |-> parsed.isArray,
       value   |-> parsed.value ]

\* lines 107-145 on the value `loaded` that lines 102-104 returned, on the
\* storage ls at time t, after k calls of Math.random(): build the entry,
\* reconcile, cut and write "userLogs".  findIndex and push throw a
\* TypeError on a value that is no array.
SaveLogs(ls, loaded, userId, username, role, action, tokenName, t, k, F) ==
  LET newLog == NewLog(userId, username, role, action, tokenName, t, k)
  IN IF ~loaded.isArray \/ 143 \in F
     THEN [ ls |-> ls, console |-> {"Failed to log user activity:"},
            draws |-> k + 2 ]
     ELSE [ ls |-> [ls EXCEPT !.userLogs =
                      JSONStringify(RecentLogs(
                        Reconcile(loaded.value, newLog, userId, action, t)))],
            console |-> {"User activity logged: " \o action \o " for "
                           \o username},
            draws |-> k + 2 ]

\* logUserActivity run on the storage ls at time t, after k calls of
\* Math.random(), with throwing lines F.  Line 102 reads "userLogs", line 143
\* writes it.  Every throw is caught on line 146: the result is the storage
\* afterwards, the message written to the console (line 145 or line 147)
\* and the number of Math.random() calls made so far.
LogUserActivity(ls, userId, username, role, action, tokenName, t, k, F) ==
  LET loaded == LoadLogs(ls, F)
  IN IF loaded.threw
     THEN [ ls |-> ls, console |-> {"Failed to log user activity:"},
            draws |-> k ]
     ELSE SaveLogs(ls, loaded, userId, username, role, action, tokenName,
                   t, k, F)

----------------------------------------------------------------------------
(* Storage accesses of the session fields *)

\* the index of the first throwing line of `sites`, Len(sites) + 1 if none
FirstFault(sites, F) ==
  IF \E i \in 1..Len(sites) : sites[i] \in F
  THEN CHOOSE i \in 1..Len(sites) :
         sites[i] \in F /\ \A j \in 1..(i - 1) : sites[j] \notin F
  ELSE Len(sites) + 1

\* a clearing that removes the token alone
ClearAuthTokenOnly(ls, sites, F) ==
  [ ls    |-> IF sites[1] \in F THEN ls ELSE [ls EXCEPT !.token = NULL],
    threw |-> \E i \in 1..Len(sites) : sites[i] \in F ]

\* localStorage.removeItem of the four keys on the lines `sites`, in order,
\* up to the first one that throws
ClearAuth(ls, sites, F) ==
  LET k == FirstFault(sites, F)
  IN [ ls    |-> [key \in DOMAIN ls |->
                    IF \E i \in 1..(k - 1) : AuthKeys[i] = key
                    THEN NULL ELSE ls[key]],
       threw |-> k <= Len(sites) ]

\* a persisting that leaves out the userId
PersistAuthNoUserId(ls, values, sites, F) ==
  LET k == FirstFault(sites, F)
  IN [ ls    |-> [key \in DOMAIN ls |->
                    IF key # "userId" /\ \E i \in 1..(k - 1) : AuthKeys[i] = key
                    THEN values[CHOOSE i \in 1..(k - 1) : AuthKeys[i] = key]
                    ELSE ls[key]],
       threw |-> k <= Len(sites) ]

\* localStorage.setItem of the four keys to `values` on the lines `sites`,
\* in order, up to the first one that throws
PersistAuth(ls, values, sites, F) ==
  LET k == FirstFault(sites, F)
  IN [ ls    |-> [key \in DOMAIN ls |->
                    IF \E i \in 1..(k - 1) : AuthKeys[i] = key
                    THEN values[CHOOSE i \in 1..(k - 1) : AuthKeys[i] = key]
                    ELSE ls[key]],
       threw |-> k <= Len(sites) ]

----------------------------------------------------------------------------
(* handleLogout *)

LogoutSites == {160, 161, 162, 102, 143, 170, 171, 172, 173, 182, 183, 184, 185}

\* handleLogout run on storage ls and in-memory user usr.  The result is the
\* storage and the user afterwards, the console messages written, and whether
\* an error left handleLogout (a throw inside its catch block).
HandleLogout(ls, usr, t, k, F) ==
  LET readThrew == {160, 161, 162} \cap F # {}
      userId    == ls.userId
      email     == ls.email
      role      == ls.userRole
      logged    == IF Truthy(userId) /\ Truthy(email) /\ Truthy(role)
                   THEN LogUserActivity(ls, userId, email, role, "logout",
                                        NULL, t, k, F)
                   ELSE [ls |-> ls, console |-> {}, draws |-> k]
      cleared   == ClearAuth(logged.ls, <<170, 171, 172, 173>>, F)
      atCatch   == IF readThrew THEN ls ELSE cleared.ls
      written   == IF readThrew THEN {} ELSE logged.console
      drawn     == IF readThrew THEN k ELSE logged.draws
      recovered == ClearAuth(atCatch, <<182, 183, 184, 185>>, F)
  IN IF ~readThrew /\ ~cleared.threw
     THEN [ ls |-> cleared.ls, user |-> NoUser, threw |-> FALSE,
            console |-> written \cup {"User logged out"}, draws |-> drawn ]
     ELSE [ ls      |-> recovered.ls,
            user    |-> IF recovered.threw THEN usr ELSE NoUser,
            threw   |-> recovered.threw,
            console |-> written \cup {"Logout failed:"},
            draws   |-> drawn ]

----------------------------------------------------------------------------
(* login, signup *)

LoginSites  == {242, 243, 244, 245, 102, 143}
SignupSites == {283, 284, 285, 286, 102, 143}

\* a login that lets a failure of the activity log reach its caller
AuthenticateStrictLog(ls, usr, email, userId, role, token, sites, message, t, k, F) ==
  LET session   == [email |-> email, userId |-> userId, role |-> role]
      persisted == PersistAuth(ls, <<token, role, userId, email>>, sites, F)
      logged    == LogUserActivity(persisted.ls, userId, email, role, "login",
                                   TokenLabel(token), t, k, F)
  IN IF persisted.threw
     THEN [ ls |-> persisted.ls, user |-> usr, threw |-> TRUE,
            ret |-> NoUser, console |-> {message}, draws |-> k ]
     ELSE IF "Failed to log user activity:" \in logged.console
     THEN [ ls |-> logged.ls, user |-> session, threw |-> TRUE,
            ret |-> NoUser, console |-> logged.console \cup {message},
            draws |-> logged.draws ]
     ELSE [ ls |-> logged.ls, user |-> session, threw |-> FALSE,
            ret |-> session, console |-> logged.console,
            draws |-> logged.draws ]

\* a login that sets the user before it persists the fields
AuthenticateEagerUser(ls, usr, email, userId, role, token, sites, message, t, k, F) ==
  LET session   == [email |-> email, userId |-> userId, role |-> role]
      persisted == PersistAuth(ls, <<token, role, userId, email>>, sites, F)
      logged    == LogUserActivity(persisted.ls, userId, email, role, "login",
                                   TokenLabel(token), t, k, F)
  IN IF persisted.threw
     THEN [ ls |-> persisted.ls, user |-> session, threw |-> TRUE,
            ret |-> NoUser, console |-> {message}, draws |-> k ]
     ELSE [ ls |-> logged.ls, user |-> session, threw |-> FALSE,
            ret |-> session, console |-> logged.console,
            draws |-> logged.draws ]

\* lines 241-259 and 282-300, shared by login and signup, after k calls of
\* Math.random(): persist the four fields, set the user, log the login,
\* return the session; a throw of setItem is logged with `message` and
\* rethrown
Authenticate(ls, usr, email, userId, role, token, sites, message, t, k, F) ==
  LET session   == [email |-> email, userId |-> userId, role |-> role]
      persisted == PersistAuth(ls, <<token, role, userId, email>>, sites, F)
      logged    == LogUserActivity(persisted.ls, userId, email, role, "login",
                                   TokenLabel(token), t, k, F)
  IN IF persisted.threw
     THEN [ ls |-> persisted.ls, user |-> usr, threw |-> TRUE,
            ret |-> NoUser, console |-> {message}, draws |-> k ]
     ELSE [ ls |-> logged.ls, user |-> session, threw |-> FALSE,
            ret |-> session, console |-> logged.console,
            draws |-> logged.draws ]

\* login(email, _password) after k calls of Math.random()
Login(ls, usr, email, t, k, F) ==
  LET token  == GenerateMockToken(t, k + 1)
      userId == IF Includes(email, "admin")
                THEN "admin-" \o ToString(t) ELSE "user-" \o ToString(t)
      role   == IF Includes(email, "admin") THEN "admin" ELSE "user"
  IN Authenticate(ls, usr, email, userId, role, token,
                  <<242, 243, 244, 245>>, "Login failed:", t, k + 1, F)

\* a signup that assigns the role as login does
SignupRoleByEmail(ls, usr, email, t, k, F) ==
  LET token  == GenerateMockToken(t, k + 1)
      role   == IF Includes(email, "admin") THEN "admin" ELSE "user"
      userId == role \o "-" \o ToString(t)
  IN Authenticate(ls, usr, email, userId, role, token,
                  <<283, 284, 285, 286>>, "Signup failed:", t, k + 1, F)

\* signup(email, _password) after k calls of Math.random()
Signup(ls, usr, email, t, k, F) ==
  LET token  == GenerateMockToken(t, k + 1)
      userId == "user-" \o ToString(t)
      role   == "user"
  IN Authenticate(ls, usr, email, userId, role, token,
                  <<283, 284, 285, 286>>, "Signup failed:", t, k + 1, F)

----------------------------------------------------------------------------
(* The component: construction and the mount effect *)

\* an initializer that restores a session from the token alone
InitialUserTokenOnly(ls) ==
  IF Truthy(ls.token) THEN [email |-> ls.email] ELSE NoUser

\* the initializer of useState on lines 48-53
InitialUser(ls) ==
  IF Truthy(ls.token) /\ Truthy(ls.email) THEN [email |-> ls.email] ELSE NoUser

ConstructSites == {49, 50}

\* the first render of AuthProvider with throwing lines F: the initializer
\* of lines 48-53 reads token and email outside any try, so a throwing
\* getItem leaves the render and no component comes into being (threw: no
\* state, no children, no effect); otherwise user and loading start as
\* lines 52 and 55 say
Construct(ls, F) ==
  IF ConstructSites \cap F # {}
  THEN [threw |-> TRUE, user |-> NoUser, loading |-> TRUE]
  ELSE [threw |-> FALSE, user |-> InitialUser(ls), loading |-> TRUE]

\* resetPassword(email), lines 312-316: writes to the console and resolves
ResetPassword(email) ==
  [threw |-> FALSE, console |-> {"Password reset requested for:"}]

CheckSites == {197, 202} \cup LogoutSites

\* {!loading && children}, line 345: the children are rendered
ChildrenRendered(ld) == ~ld

\* checkAuth, lines 195-218, after k calls of Math.random().  F holds the
\* throwing lines of the try block, the handleLogout call of line 209
\* included; F2 those of the handleLogout call of line 214.  threw: the
\* promise of checkAuth is rejected.
CheckAuth(ls, usr, t, k, F, F2) ==
  LET token   == ls.token
      email   == ls.email
      forced  == HandleLogout(ls, usr, t, k, F)
      tryThrew ==
        \/ 197 \in F
        \/ Truthy(token) /\ 202 \in F
        \/ Truthy(token) /\ ~Truthy(email) /\ forced.threw
      atCatch ==
        IF 197 \notin F /\ Truthy(token) /\ 202 \notin F /\ ~Truthy(email)
        THEN forced
        ELSE [ ls |-> ls, user |-> usr, threw |-> FALSE, console |-> {},
               draws |-> k ]
      retried == HandleLogout(atCatch.ls, atCatch.user, t, atCatch.draws, F2)
  IN IF tryThrew
     THEN [ ls |-> retried.ls, user |-> retried.user, threw |-> retried.threw,
            loading |-> FALSE,
            console |-> atCatch.console \cup {"Authentication check failed:"}
                        \cup retried.console,
            draws |-> retried.draws ]
     ELSE IF ~Truthy(token)
     THEN [ ls |-> ls, user |-> usr, threw |-> FALSE, loading |-> FALSE,
            console |-> {}, draws |-> k ]
     ELSE IF Truthy(email)
     THEN [ ls |-> ls, user |-> [email |-> email], threw |-> FALSE,
            loading |-> FALSE, console |-> {}, draws |-> k ]
     ELSE [ ls |-> forced.ls, user |-> forced.user, threw |-> FALSE,
            loading |-> FALSE, console |-> forced.console,
            draws |-> forced.draws ]

----------------------------------------------------------------------------
(* Initial states *)

\* a browser that never ran the application
FreshStorage ==
  [ token |-> NULL, userRole |-> NULL, userId |-> NULL, email |-> NULL,
    userLogs |-> LogsText("absent", <<>>) ]

\* the time at which the behaviours start: one millisecond per seeded login
StartNow == MaxLogs

\* Math.random() calls of one successful login: line 73, line 108, line 86
DrawsPerLogin == 3

\* the storage left by n <= MaxLogs successful logins of "a@x.com" in a fresh
\* browser, the j-th at millisecond j: login j persists its four fields and
\* appends its entry (lines 242-257)
SeededStorage(n) ==
  IF n = 0
  THEN FreshStorage
  ELSE [ token    |-> GenerateMockToken(n, DrawsPerLogin * (n - 1) + 1),
         userRole |-> "user",
         userId   |-> "user-" \o ToString(n),
         email    |-> "a@x.com",
         userLogs |-> JSONStringify(
           [j \in 1..n |->
              NewLog("user-" \o ToString(j), "a@x.com", "user", "login",
                     TokenLabel(JwtHeader), j,
                     DrawsPerLogin * (j - 1) + 1)]) ]

\* the numbers of earlier logins the behaviours start from
SeedSizes == {0, MaxLogs}

\* what the application finds in localStorage when it is loaded: the storage
\* left by earlier logins, possibly with the email missing or with a
\* "userLogs" value that is absent or is no JSON
InitStoragesOf(n) ==
  LET ls == SeededStorage(n)
  IN { ls,
       [ls EXCEPT !.email = NULL],
       [ls EXCEPT !.userLogs = LogsText("absent", <<>>)],
       [ls EXCEPT !.userLogs = LogsText("garbage", <<>>)] }

\* the browser tabs that write the activity log next to this component
Writers == {1, 2}

\* no other tab is writing: each is idle, with nothing loaded
IdleTabs ==
  [w \in Writers |->
     [ pc     |-> "idle",
       loaded |-> [threw |-> FALSE, isArray |-> TRUE, value |-> <<>>],
       event  |-> [userId |-> NULL, action |-> NULL, t |-> 0] ]]

\* the last handler call: its name and arguments, whether it threw to its
\* caller (or rejected its promise) and what it returned
Call(op, args, threw, ret) ==
  [op |-> op, args |-> args, threw |-> threw, ret |-> ret]

NoCall == Call("none", <<>>, FALSE, NoUser)

\* the storages the component starts from, and Math.random() as far as the
\* seeded logins have called it
InitStorages == UNION {InitStoragesOf(n) : n \in SeedSizes}

\* the first render of the component, lines 48-55, with throwing lines F:
\* the component is mounted when the render completed
Init ==
  /\ \E n \in SeedSizes :
       /\ localStorage \in InitStoragesOf(n)
       /\ draws = DrawsPerLogin * n
  /\ \E F \in Faults(ConstructSites, MaxFaults) :
       LET r == Construct(localStorage, F)
       IN /\ mounted = ~r.threw
          /\ user = r.user
          /\ loading = r.loading
          /\ call = Call("construct", <<>>, r.threw, NoUser)
          /\ nfaults = FaultsAfter(ConstructSites, F, 0)
  /\ now = StartNow
  /\ console = {}
  /\ ncalls = 0
  /\ tabs = IdleTabs

----------------------------------------------------------------------------
(* Actions *)

\* a handler call ends with result r
Finish(op, args, r, ret) ==
  /\ localStorage' = r.ls
  /\ user' = r.user
  /\ draws' = r.draws
  /\ console' = r.console
  /\ call' = Call(op, args, r.threw, ret)
  /\ ncalls' = ncalls + 1
  /\ UNCHANGED <<now, tabs, mounted>>

\* the throwing lines of the second handleLogout call of checkAuth, after a
\* try block with throwing lines F: an unavailable storage stays so
RetryFaults(F) ==
  IF F = CheckSites
  THEN {LogoutSites}
  ELSE BoundedSubsets(LogoutSites, MaxFaults - nfaults - Cardinality(F))

\* the effect of lines 194-221 runs checkAuth once after the first render
DoCheckAuth ==
  /\ mounted
  /\ loading
  /\ ncalls < MaxCalls
  /\ \E F \in Faults(CheckSites, MaxFaults - nfaults) :
       \E F2 \in RetryFaults(F) :
         LET r == CheckAuth(localStorage, user, now, draws, F, F2)
         IN /\ Finish("checkAuth", <<>>, r, NoUser)
            /\ loading' = r.loading
            /\ nfaults' = FaultsAfter(CheckSites, F, nfaults + Cardinality(F2))

\* a child calls login(email, password); children render when ~loading
DoLogin ==
  /\ mounted
  /\ ChildrenRendered(loading)
  /\ ncalls < MaxCalls
  /\ \E email \in Emails, F \in Faults(LoginSites, MaxFaults - nfaults) :
       LET r == Login(localStorage, user, email, now, draws, F)
       IN /\ Finish("login", <<email>>, r, r.ret)
          /\ nfaults' = FaultsAfter(LoginSites, F, nfaults)
          /\ UNCHANGED loading

\* a child calls signup(email, password)
DoSignup ==
  /\ mounted
  /\ ChildrenRendered(loading)
  /\ ncalls < MaxCalls
  /\ \E email \in Emails, F \in Faults(SignupSites, MaxFaults - nfaults) :
       LET r == Signup(localStorage, user, email, now, draws, F)
       IN /\ Finish("signup", <<email>>, r, r.ret)
          /\ nfaults' = FaultsAfter(SignupSites, F, nfaults)
          /\ UNCHANGED loading

\* a child calls logout()
DoLogout ==
  /\ mounted
  /\ ChildrenRendered(loading)
  /\ ncalls < MaxCalls
  /\ \E F \in Faults(LogoutSites, MaxFaults - nfaults) :
       LET r == HandleLogout(localStorage, user, now, draws, F)
       IN /\ Finish("logout", <<>>, r, NoUser)
          /\ nfaults' = FaultsAfter(LogoutSites, F, nfaults)
          /\ UNCHANGED loading

\* the page is loaded again: the component is constructed from the storage,
\* with throwing lines F (explored while the mount check that follows is
\* within MaxCalls)
Reload ==
  /\ ~mounted \/ ~loading
  /\ ncalls + 1 < MaxCalls
  /\ \E F \in Faults(ConstructSites, MaxFaults - nfaults) :
       LET r == Construct(localStorage, F)
       IN /\ mounted' = ~r.threw
          /\ user' = r.user
          /\ loading' = r.loading
          /\ call' = Call("reload", <<>>, r.threw, NoUser)
          /\ nfaults' = FaultsAfter(ConstructSites, F, nfaults)
  /\ console' = {}
  /\ ncalls' = ncalls + 1
  /\ UNCHANGED <<localStorage, now, draws, tabs>>

\* the emails a caller passes to resetPassword
ResetEmails == {"a@x.com"}

\* a child calls resetPassword(email)
DoResetPassword ==
  /\ mounted
  /\ ChildrenRendered(loading)
  /\ ncalls < MaxCalls
  /\ \E email \in ResetEmails :
       LET r == ResetPassword(email)
       IN /\ console' = r.console
          /\ call' = Call("resetPassword", <<email>>, r.threw, NoUser)
  /\ ncalls' = ncalls + 1
  /\ UNCHANGED <<localStorage, user, loading, now, draws, nfaults, tabs,
                 mounted>>

\* a millisecond passes
Tick ==
  /\ now < StartNow + MaxTicks
  /\ now' = now + 1
  /\ UNCHANGED <<localStorage, user, loading, draws, console, call, ncalls,
                 nfaults, tabs, mounted>>

Next ==
  \/ DoCheckAuth \/ DoLogin \/ DoSignup \/ DoLogout \/ DoResetPassword
  \/ Reload \/ Tick

Spec == Init /\ [][Next]_vars

\* the numbers of earlier logins the mount check is followed from
MountSeedSizes == {0, 1}

\* the first render of the component in a browser with no or one earlier
\* login
InitMount ==
  /\ \E n \in MountSeedSizes :
       /\ localStorage \in InitStoragesOf(n)
       /\ draws = DrawsPerLogin * n
  /\ \E F \in Faults(ConstructSites, MaxFaults) :
       LET r == Construct(localStorage, F)
       IN /\ mounted = ~r.threw
          /\ user = r.user
          /\ loading = r.loading
          /\ call = Call("construct", <<>>, r.threw, NoUser)
          /\ nfaults = FaultsAfter(ConstructSites, F, 0)
  /\ now = StartNow
  /\ console = {}
  /\ ncalls = 0
  /\ tabs = IdleTabs

\* the effect of lines 194-221 is run after the render that mounts the
\* component: the mount check is not postponed forever
SpecMount == InitMount /\ [][Next]_vars /\ WF_vars(DoCheckAuth)

----------------------------------------------------------------------------
(* The session store after a first login *)

\* the throwing lines of a login that wrote all four fields, or only the
\* first one, two or three of them
FirstLoginFaults == {{}, {243}, {244}, {245}}

\* the component in a fresh browser after its mount check and one login,
\* which succeeded or failed at one of the writes of lines 243-245
InitLogout ==
  /\ \E email \in Emails, F \in FirstLoginFaults :
       LET r == Login(FreshStorage, NoUser, email, StartNow, 0, F)
       IN /\ localStorage = r.ls
          /\ user = r.user
          /\ draws = r.draws
  /\ loading = FALSE
  /\ now = StartNow
  /\ console = {}
  /\ call = NoCall
  /\ ncalls = 0
  /\ nfaults = 0
  /\ tabs = IdleTabs
  /\ mounted = TRUE

NextLogout == DoLogin \/ DoSignup \/ DoLogout \/ Tick

SpecLogout == InitLogout /\ [][NextLogout]_vars

----------------------------------------------------------------------------
(* Logins and logouts in turn, on a storage that never fails *)

\* the component in a fresh browser after its mount check
InitAlternate ==
  /\ localStorage = FreshStorage
  /\ user = NoUser
  /\ loading = FALSE
  /\ now = StartNow
  /\ draws = 0
  /\ console = {}
  /\ call = NoCall
  /\ ncalls = 0
  /\ nfaults = 0
  /\ tabs = IdleTabs
  /\ mounted = TRUE

\* the user ids of the entries of the stored log
LoggedUserIds(ls) ==
  IF ls.userLogs.kind = "array"
  THEN {ls.userLogs.arr[i].userId : i \in 1..Len(ls.userLogs.arr)}
  ELSE {}

\* login(email, password) after a logout (or first), with a user id that no
\* earlier login had
AltLogin ==
  /\ mounted
  /\ ChildrenRendered(loading)
  /\ call.op \in {"none", "logout"}
  /\ ncalls < MaxCalls
  /\ \E email \in Emails :
       LET r == Login(localStorage, user, email, now, draws, {})
       IN /\ r.ret.userId \notin LoggedUserIds(localStorage)
          /\ Finish("login", <<email>>, r, r.ret)
          /\ UNCHANGED <<loading, nfaults>>

\* signup(email, password) after a logout (or first), with a user id that
\* no earlier login had
AltSignup ==
  /\ mounted
  /\ ChildrenRendered(loading)
  /\ call.op \in {"none", "logout"}
  /\ ncalls < MaxCalls
  /\ \E email \in Emails :
       LET r == Signup(localStorage, user, email, now, draws, {})
       IN /\ r.ret.userId \notin LoggedUserIds(localStorage)
          /\ Finish("signup", <<email>>, r, r.ret)
          /\ UNCHANGED <<loading, nfaults>>

\* logout() after a login or signup
AltLogout ==
  /\ mounted
  /\ ChildrenRendered(loading)
  /\ call.op \in {"login", "signup"}
  /\ ncalls < MaxCalls
  /\ LET r == HandleLogout(localStorage, user, now, draws, {})
     IN /\ Finish("logout", <<>>, r, NoUser)
        /\ UNCHANGED <<loading, nfaults>>

NextAlternate == AltLogin \/ AltSignup \/ AltLogout \/ Tick

SpecAlternate == InitAlternate /\ [][NextAlternate]_vars

----------------------------------------------------------------------------
(* Role queries of the context value *)

\* hasRole(requiredRole), lines 323-326, with throwing lines F: getItem
\* returns null for a role that is not persisted, and null === requiredRole
\* is false for every string
HasRole(ls, requiredRole, F) ==
  LET userRole == ls.userRole
  IN IF 324 \in F
     THEN [threw |-> TRUE, ret |-> NoUser]
     ELSE [threw |-> FALSE, ret |-> (userRole # NULL /\ userRole = requiredRole)]

\* isAdmin: () => hasRole("admin"), line 339
IsAdmin(ls, F) == HasRole(ls, "admin", F)

\* the roles a caller asks hasRole for
Roles == {"admin", "user", "Admin"}

RoleSites == {324}

\* a query of the context value ends with result r and changes no state
Answer(op, args, r, F) ==
  /\ call' = Call(op, args, r.threw, r.ret)
  /\ ncalls' = ncalls + 1
  /\ console' = {}
  /\ nfaults' = FaultsAfter(RoleSites, F, nfaults)
  /\ UNCHANGED <<localStorage, user, loading, now, draws, tabs, mounted>>

\* a child calls hasRole(requiredRole)
DoHasRole ==
  /\ mounted
  /\ ChildrenRendered(loading)
  /\ ncalls < MaxCalls
  /\ \E requiredRole \in Roles, F \in Faults(RoleSites, MaxFaults - nfaults) :
       Answer("hasRole", <<requiredRole>>,
              HasRole(localStorage, requiredRole, F), F)

\* a child calls isAdmin()
DoIsAdmin ==
  /\ mounted
  /\ ChildrenRendered(loading)
  /\ ncalls < MaxCalls
  /\ \E F \in Faults(RoleSites, MaxFaults - nfaults) :
       Answer("isAdmin", <<>>, IsAdmin(localStorage, F), F)

NextRole == Next \/ DoHasRole \/ DoIsAdmin

\* the component with the role queries of its children
SpecRole == Init /\ [][NextRole]_vars

----------------------------------------------------------------------------
(* The activity log manager alone: record = logUserActivity called directly *)

\* the user ids passed to record: those of the first and of the last seeded
\* login, and one no seeded entry has
RecordUserIds ==
  {"user-1", "user-" \o ToString(MaxLogs), "user-" \o ToString(MaxLogs + 1)}

RecordSeedSizes == {0, 1, MaxLogs - 1, MaxLogs}

\* the stored "userLogs" values record starts from
RecordInitTexts ==
  { LogsText(kind, <<>>) : kind \in {"absent", "empty", "garbage", "object"} }
    \cup { JSONStringify(<<>>) }
    \cup { SeededStorage(n).userLogs : n \in RecordSeedSizes \ {0} }

InitRecord ==
  /\ localStorage \in
       { [FreshStorage EXCEPT !.userLogs = text] : text \in RecordInitTexts }
  /\ user = NoUser
  /\ loading = FALSE
  /\ now = StartNow
  /\ draws = DrawsPerLogin * MaxLogs
  /\ console = {}
  /\ call = NoCall
  /\ ncalls = 0
  /\ nfaults = 0
  /\ tabs = IdleTabs
  /\ mounted = TRUE

RecordSites == {102, 143}

\* record(userId, username, role, action, tokenLabel)
DoRecord ==
  /\ ncalls < MaxCalls
  /\ \E userId \in RecordUserIds, action \in {"login", "logout"},
        F \in Faults(RecordSites, MaxFaults - nfaults) :
       LET r == LogUserActivity(localStorage, userId, "a@x.com", "user", action,
                                IF action = "login"
                                THEN TokenLabel(JwtHeader) ELSE NULL,
                                now, draws, F)
       IN /\ localStorage' = r.ls
          /\ draws' = r.draws
          /\ console' = r.console
          /\ call' = Call("record", <<userId, action>>, FALSE, NoUser)
          /\ ncalls' = ncalls + 1
          /\ nfaults' = FaultsAfter(RecordSites, F, nfaults)
          /\ UNCHANGED <<user, loading, now, tabs, mounted>>

NextRecord == DoRecord \/ Tick

SpecRecord == InitRecord /\ [][NextRecord]_vars

----------------------------------------------------------------------------
(* Two tabs recording into the same "userLogs" *)

\* the user whose events tab w records
TabUserId(w) == "tab-" \o ToString(w)

TabSeedSizes == {0, 1, MaxLogs}

InitTabs ==
  /\ localStorage \in
       { [FreshStorage EXCEPT !.userLogs = SeededStorage(n).userLogs] :
           n \in TabSeedSizes }
  /\ user = NoUser
  /\ loading = FALSE
  /\ now = StartNow
  /\ draws = DrawsPerLogin * MaxLogs
  /\ console = {}
  /\ call = NoCall
  /\ ncalls = 0
  /\ nfaults = 0
  /\ tabs = IdleTabs
  /\ mounted = TRUE

\* tab w enters record(TabUserId(w), ..., action) and runs lines 102-104;
\* another tab may access the storage before tab w goes on
TabLoad(w) ==
  /\ tabs[w].pc \in {"idle", "done"}
  /\ ncalls < MaxCalls
  /\ \E action \in {"login", "logout"} :
       LET loaded == LoadLogs(localStorage, {})
       IN /\ tabs' = [tabs EXCEPT ![w] =
                       [ pc     |-> IF loaded.threw THEN "done" ELSE "loaded",
                         loaded |-> loaded,
                         event  |-> [ userId |-> TabUserId(w),
                                      action |-> action, t |-> now ] ]]
          /\ console' = IF loaded.threw
                        THEN {"Failed to log user activity:"} ELSE {}
          /\ call' = Call("load", <<w, action>>, FALSE, NoUser)
  /\ ncalls' = ncalls + 1
  /\ UNCHANGED <<localStorage, user, loading, now, draws, nfaults, mounted>>

\* tab w runs lines 107-145 on what it loaded and leaves record
TabSave(w) ==
  /\ tabs[w].pc = "loaded"
  /\ LET event == tabs[w].event
         r == SaveLogs(localStorage, tabs[w].loaded, event.userId, "a@x.com",
                       "user", event.action,
                       IF event.action = "login"
                       THEN TokenLabel(JwtHeader) ELSE NULL,
                       now, draws, {})
     IN /\ localStorage' = r.ls
        /\ draws' = r.draws
        /\ console' = r.console
        /\ tabs' = [tabs EXCEPT ![w].pc = "done", ![w].event.t = now]
        /\ call' = Call("save", <<w, event.action>>, FALSE, NoUser)
  /\ UNCHANGED <<user, loading, now, ncalls, nfaults, mounted>>

NextTabs == (\E w \in Writers : TabLoad(w) \/ TabSave(w)) \/ Tick

SpecTabs == InitTabs /\ [][NextTabs]_vars

----------------------------------------------------------------------------
(* Vocabulary of the properties *)

\* the entries of the persisted activity log; a missing or empty "userLogs"
\* value holds none
LogsOf(ls) == IF ls.userLogs.kind = "array" THEN ls.userLogs.arr ELSE <<>>

\* an open login entry of user u
OpenLogin(e, u) == e.userId = u /\ e.action = "login" /\ e.logoutTime = NULL

OpenCount(logs, u) == Cardinality({i \in 1..Len(logs) : OpenLogin(logs[i], u)})

LogFailed(out) == "Failed to log user activity:" \in out

\* this step is a call record(u, ..., a)
RecordCalled(u, a) ==
  ncalls' = ncalls + 1 /\ call'.op = "record" /\ call'.args = <<u, a>>

\* this step is a call record(u, ..., a) that read and wrote the log
Recorded(u, a) == RecordCalled(u, a) /\ ~LogFailed(console')

\* the state follows a call record(u, ..., a) that read and wrote the log
AfterRecorded(a) ==
  call.op = "record" /\ call.args[2] = a /\ ~LogFailed(console)

UserIdsOf(logs) == {logs[i].userId : i \in 1..Len(logs)}

----------------------------------------------------------------------------
(* Activity log: bound, reconciliation, eviction *)

\* C1: whatever login, signup, logout and the mount check recorded, the
\* persisted activity log holds at most 100 entries.
C1_LogAtMost100 == Len(LogsOf(localStorage)) <= MaxLogs

\* a login recorded on a full log: the log still holds 100 entries, the
\* oldest seeded entry is gone and the new entry is the last one
C1_Witness ==
  /\ call.op \in {"login", "signup"} /\ ~call.threw /\ ~LogFailed(console)
  /\ Len(LogsOf(localStorage)) = MaxLogs
  /\ "user-1" \notin UserIdsOf(LogsOf(localStorage))
  /\ LogsOf(localStorage)[MaxLogs].userId = call.ret.userId

\* C2: record(u, logout) on a log with an open login entry of u adds no
\* entry; an open entry of u keeps its id, loginTime and position, gets a
\* logoutTime and the action "logout".  On a log holding just the entry of
\* record(u, login), exactly 1 entry is left, with both times set.
C2_LogoutClosesOpenLogin ==
  [][\A u \in RecordUserIds :
       LET before == LogsOf(localStorage)
           after  == LogsOf(localStorage')
       IN (Recorded(u, "logout") /\ OpenCount(before, u) > 0) =>
            /\ Len(after) = Len(before)
            /\ \E i \in 1..Len(before) :
                 /\ OpenLogin(before[i], u)
                 /\ after[i].id = before[i].id
                 /\ after[i].loginTime = before[i].loginTime
                 /\ after[i].logoutTime # NULL
                 /\ after[i].action = "logout"
            /\ Len(before) = 1 =>
                 /\ Len(after) = 1
                 /\ after[1].action = "logout"
                 /\ after[1].loginTime # NULL
                 /\ after[1].logoutTime # NULL
    ]_vars

\* record(u, login) then record(u, logout) on an empty log: one entry, closed
C2_Witness ==
  /\ AfterRecorded("logout")
  /\ ncalls = 2
  /\ Len(LogsOf(localStorage)) = 1
  /\ LET e == LogsOf(localStorage)[1]
     IN /\ e.userId = call.args[1]
        /\ e.action = "logout"
        /\ e.loginTime # NULL
        /\ e.logoutTime # NULL

\* C3: record(u, logout) on a log with no open login entry of u appends at
\* the end one entry with userId u, action "logout", a logoutTime and no
\* loginTime; every other entry is unchanged (on a full log the oldest one
\* is dropped).
C3_UnmatchedLogoutAppends ==
  [][\A u \in RecordUserIds :
       LET before == LogsOf(localStorage)
           after  == LogsOf(localStorage')
           n      == Len(after)
           d      == Len(before) + 1 - n
       IN (Recorded(u, "logout") /\ OpenCount(before, u) = 0) =>
            /\ n >= 1
            /\ after[n].userId = u
            /\ after[n].action = "logout"
            /\ after[n].logoutTime # NULL
            /\ after[n].loginTime = NULL
            /\ d \in {0, 1}
            /\ d = 1 => Len(before) = MaxLogs
            /\ \A i \in 1..(n - 1) : after[i] = before[i + d]
    ]_vars

\* a standalone logout entry was appended behind at least one other entry
C3_Witness ==
  /\ AfterRecorded("logout")
  /\ Len(LogsOf(localStorage)) >= 2
  /\ LET e == LogsOf(localStorage)[Len(LogsOf(localStorage))]
     IN /\ e.userId = call.args[1]
        /\ e.action = "logout"
        /\ e.loginTime = NULL
        /\ e.logoutTime # NULL

\* C4: record(u, login) always appends at the end an entry of u with a
\* loginTime and no logoutTime and changes no other entry, whether or not
\* an open login entry of u exists; every open login entry of u stays open
\* (only the oldest entry of a full log is dropped), so a login recorded
\* right after a login of u leaves two separate open login entries of u.
C4_LoginAlwaysAppends ==
  [][\A u \in RecordUserIds :
       LET before == LogsOf(localStorage)
           after  == LogsOf(localStorage')
           n      == Len(after)
           d      == Len(before) + 1 - n
       IN Recorded(u, "login") =>
            /\ n >= 1
            /\ OpenLogin(after[n], u)
            /\ after[n].loginTime # NULL
            /\ d \in {0, 1}
            /\ d = 1 => Len(before) = MaxLogs
            /\ \A i \in 1..(n - 1) : after[i] = before[i + d]
            /\ OpenCount(after, u) = OpenCount(before, u) + 1
                 - (IF d = 1 /\ OpenLogin(before[1], u) THEN 1 ELSE 0)
            /\ (Len(before) >= 1 /\ OpenLogin(before[Len(before)], u)) =>
                 /\ n >= 2
                 /\ OpenLogin(after[n - 1], u)
                 /\ OpenLogin(after[n], u)
    ]_vars

\* two logins of one user recorded in a row: the last two entries are open
\* login entries of that user
C4_Witness ==
  /\ AfterRecorded("login")
  /\ ncalls >= 2
  /\ LET logs == LogsOf(localStorage)
         n    == Len(logs)
     IN /\ n >= 2
        /\ OpenLogin(logs[n], call.args[1])
        /\ OpenLogin(logs[n - 1], call.args[1])
        /\ logs[n].loginTime # NULL
        /\ logs[n - 1].loginTime # NULL

\* C5: a record call that appends to a log of 100 entries drops exactly the
\* first entry and keeps the other 99 in their order before the new one.
\* After 101 logins of distinct user ids on an empty log (a login of a new
\* id on the log of 100 seeded logins) the log has 100 entries and none of
\* the user of the first login.
C5_EvictionIsFifo ==
  [][\A u \in RecordUserIds, a \in {"login", "logout"} :
       LET before == LogsOf(localStorage)
           after  == LogsOf(localStorage')
       IN ( /\ Recorded(u, a)
            /\ Len(before) = MaxLogs
            /\ a = "login" \/ OpenCount(before, u) = 0 ) =>
            /\ Len(after) = MaxLogs
            /\ \A i \in 1..(MaxLogs - 1) : after[i] = before[i + 1]
            /\ after[MaxLogs].userId = u
            /\ after[MaxLogs].action = a
            /\ ( /\ a = "login"
                 /\ u \notin UserIdsOf(before)
                 /\ Cardinality(UserIdsOf(before)) = MaxLogs ) =>
                 before[1].userId \notin UserIdsOf(after)
    ]_vars

\* the 101st login of a new user id on the log of 100 seeded logins
C5_Witness ==
  /\ AfterRecorded("login")
  /\ ncalls = 1
  /\ LET logs == LogsOf(localStorage)
     IN /\ Len(logs) = MaxLogs
        /\ Cardinality(UserIdsOf(logs)) = MaxLogs
        /\ "user-1" \notin UserIdsOf(logs)
        /\ logs[1].userId = "user-2"
        /\ logs[MaxLogs].userId = call.args[1]

----------------------------------------------------------------------------
(* Session store: restore, logout, failures *)

\* none of token, userRole, userId and email is persisted
AuthCleared(ls) ==
  ls.token = NULL /\ ls.userRole = NULL /\ ls.userId = NULL /\ ls.email = NULL

\* C6: when the mount check starts with a token persisted and no email, and
\* completes, there is no in-memory session and none of the four fields is
\* persisted.
C6_TokenWithoutEmailIsCleared ==
  [][( /\ loading /\ ~loading'
       /\ localStorage.token # NULL /\ ~Truthy(localStorage.email)
       /\ ~call'.threw ) =>
       (user' = NoUser /\ AuthCleared(localStorage'))
    ]_vars

\* the mount check took the forced logout of line 209, which completed
C6_Witness ==
  /\ call.op = "checkAuth" /\ ~call.threw /\ ~loading
  /\ "User logged out" \in console
  /\ "Authentication check failed:" \notin console
  /\ user = NoUser
  /\ AuthCleared(localStorage)

\* C7: logout() never throws, and after it the four fields are absent and
\* the in-memory session is null, on every path.
C7_LogoutNeverThrowsAndClears ==
  call.op = "logout" =>
    (~call.threw /\ AuthCleared(localStorage) /\ user = NoUser)

\* C8: record on a "userLogs" value that is no log (no JSON, or no array)
\* persists a log of exactly the one new entry.
C8_CorruptLogReadAsEmpty ==
  [][\A u \in RecordUserIds, a \in {"login", "logout"} :
       ( /\ RecordCalled(u, a)
         /\ localStorage.userLogs.kind \in {"garbage", "object"} ) =>
         /\ localStorage'.userLogs.kind = "array"
         /\ Len(localStorage'.userLogs.arr) = 1
         /\ localStorage'.userLogs.arr[1].userId = u
         /\ localStorage'.userLogs.arr[1].action = a
    ]_vars

\* C9: a failure of the activity log does not fail the auth operation.  A
\* login or signup whose log call failed returned the session, with the
\* four fields persisted and the in-memory session set; a logout whose log
\* call failed, with no failing access to the session fields, cleared them.
C9_LogFailureDoesNotFailAuth ==
  /\ (call.op \in {"login", "signup"} /\ LogFailed(console)) =>
       /\ ~call.threw
       /\ call.ret = [ email  |-> call.args[1],
                       userId |-> localStorage.userId,
                       role   |-> localStorage.userRole ]
       /\ user = call.ret
       /\ localStorage.email = call.args[1]
       /\ localStorage.token # NULL
       /\ localStorage.userId # NULL
       /\ localStorage.userRole # NULL
  /\ (call.op = "logout" /\ LogFailed(console)
        /\ "Logout failed:" \notin console) =>
       (~call.threw /\ AuthCleared(localStorage) /\ user = NoUser)

\* a login on a log that could not be read or written returned its session
C9_Witness ==
  /\ call.op \in {"login", "signup"}
  /\ LogFailed(console)
  /\ ~call.threw
  /\ user = call.ret
  /\ user # NoUser
  /\ localStorage.token # NULL
  /\ localStorage.userId = call.ret.userId

\* the role and user id that login or signup of the step computes
ExpectedRole ==
  IF call'.op = "login" /\ Includes(call'.args[1], "admin")
  THEN "admin" ELSE "user"

ExpectedUserId ==
  (IF ExpectedRole = "admin" THEN "admin-" ELSE "user-") \o ToString(now)

\* C10: a login or signup that fails to persist one of the four fields
\* throws, leaves the in-memory session and the activity log as they were,
\* and leaves the first k fields (token, userRole, userId, in this order)
\* newly written and the others, the email among them, as they were.
C10_PersistFailurePropagates ==
  [][( /\ ncalls' = ncalls + 1
       /\ call'.op \in {"login", "signup"}
       /\ call'.threw ) =>
       /\ call'.ret = NoUser
       /\ user' = user
       /\ localStorage'.userLogs = localStorage.userLogs
       /\ localStorage'.email = localStorage.email
       /\ \E k \in 0..3 :
            /\ IF k >= 1
               THEN localStorage'.token = GenerateMockToken(now, draws')
               ELSE localStorage'.token = localStorage.token
            /\ localStorage'.userRole =
                 (IF k >= 2 THEN ExpectedRole ELSE localStorage.userRole)
            /\ localStorage'.userId =
                 (IF k >= 3 THEN ExpectedUserId ELSE localStorage.userId)
    ]_vars

\* a login in a fresh browser threw after it had written the token and the
\* role: both are persisted, the email is not, and there is no session
C10_Witness ==
  /\ call.op \in {"login", "signup"}
  /\ call.threw
  /\ localStorage.token # NULL
  /\ localStorage.userRole # NULL
  /\ localStorage.email = NULL
  /\ localStorage.userLogs.kind = "absent"
  /\ user = NoUser

----------------------------------------------------------------------------
(* Session store: what a successful login or signup leaves *)

\* this step is a call of login or signup that returned a session
Authenticated ==
  ncalls' = ncalls + 1 /\ call'.op \in {"login", "signup"} /\ ~call'.threw

\* the four fields persisted, the in-memory session and the role are those
\* of the session the call of this step returned
SessionOfCall ==
  /\ call'.ret =
       [email |-> call'.args[1], userId |-> ExpectedUserId, role |-> ExpectedRole]
  /\ user' = call'.ret
  /\ localStorage'.token # NULL
  /\ localStorage'.userRole = call'.ret.role
  /\ localStorage'.userId = call'.ret.userId
  /\ localStorage'.email = call'.ret.email

\* the last entry of the log is an open login entry of the returned session
LastIsLoginOfCall ==
  LET logs == LogsOf(localStorage')
  IN /\ Len(logs) >= 1
     /\ OpenLogin(logs[Len(logs)], call'.ret.userId)
     /\ logs[Len(logs)].role = call'.ret.role

\* C11 as stated: after every successful login or signup the four fields
\* are persisted and equal the returned session, the in-memory session is
\* the returned one, the role is admin exactly for a login with an email
\* containing "admin", and the last log entry is the open login entry of the
\* returned session.
C11_LoginLeavesSessionAndLogEntry ==
  [][Authenticated => (SessionOfCall /\ LastIsLoginOfCall)]_vars

\* C11 amended: as above, but the last log entry is the open login entry of
\* the returned session only when the log call of the login wrote the log;
\* when it failed ("userLogs" unreadable, no array, or not writable) the
\* stored "userLogs" value is left as it was.
C11_LoginLeavesSession ==
  [][Authenticated =>
       /\ SessionOfCall
       /\ IF LogFailed(console')
          THEN localStorage'.userLogs = localStorage.userLogs
          ELSE LastIsLoginOfCall
    ]_vars

\* signup("admin@x.com") returned a session of role user, persisted it and
\* appended its open login entry
C11_Witness ==
  /\ call.op = "signup" /\ ~call.threw /\ ~LogFailed(console)
  /\ call.args[1] = "admin@x.com"
  /\ call.ret.role = "user"
  /\ user = call.ret
  /\ localStorage.userRole = "user"
  /\ localStorage.email = "admin@x.com"
  /\ LET logs == LogsOf(localStorage)
     IN /\ Len(logs) >= 1
        /\ OpenLogin(logs[Len(logs)], call.ret.userId)

----------------------------------------------------------------------------
(* Role queries *)

\* this step is a role query that returned; its answer and the role asked
RoleAnswered ==
  ncalls' = ncalls + 1 /\ call'.op \in {"hasRole", "isAdmin"} /\ ~call'.threw

RoleAsked == IF call'.op = "isAdmin" THEN "admin" ELSE call'.args[1]

\* C12: hasRole(r) answers true exactly when the persisted userRole equals
\* r, whatever the in-memory session is; directly after logout() hasRole(r)
\* answers false for every r, and so does isAdmin().
C12_HasRoleReadsPersistedRole ==
  [][RoleAnswered =>
       /\ call'.ret = (localStorage.userRole = RoleAsked)
       /\ call.op = "logout" => call'.ret = FALSE
    ]_vars

----------------------------------------------------------------------------
(* The loading gate *)

\* this step is a call made by a child of the provider
ChildCalled ==
  /\ ncalls' = ncalls + 1
  /\ call'.op \in {"login", "signup", "logout", "resetPassword", "hasRole",
                   "isAdmin"}

\* the gate is open: a component exists and renders its children
GateOpen == mounted /\ ChildrenRendered(loading)

\* C13: the gate starts closed; restoring at startup opens it, and it does
\* so on every path (session found, no token, token without email, an error
\* while the persisted fields are read); no child is rendered, and so none
\* calls the context, while loading is true; an open gate is closed again
\* only by loading the page anew, never by the component.
C13_LoadingGateOpens ==
  /\ GateOpen = FALSE
  /\ (~GateOpen) ~> GateOpen
  /\ [][(ncalls' = ncalls + 1 /\ call'.op = "checkAuth") => ~loading']_vars
  /\ [][ChildCalled => (~loading /\ ~loading')]_vars
  /\ [][(~loading /\ loading') => call'.op = "reload"]_vars

----------------------------------------------------------------------------
(* The in-memory session *)

\* both the token and the email are found persisted
SessionPersisted(ls) == Truthy(ls.token) /\ Truthy(ls.email)

\* this step is a call of op
Called(op) == ncalls' = ncalls + 1 /\ call'.op = op

\* handleLogout ran in this step: as logout(), or called by the mount check
\* (lines 209 and 214)
LogoutRan ==
  \/ Called("logout")
  \/ Called("checkAuth")
       /\ {"User logged out", "Logout failed:"} \cap console' # {}

\* C14: a session exists in memory after construction exactly when token
\* and email are found persisted; afterwards a session comes into being or
\* is replaced only by a login or signup that succeeded (its returned
\* session), a failed login or signup leaves the session as it was, and a
\* session ends only where handleLogout ran (logout, or the clearing by the
\* mount check), which every logout() that returns does.
C14_SessionIffRestoredOrCreated ==
  /\ (user # NoUser) = (mounted /\ SessionPersisted(localStorage))
  /\ [][Called("reload") =>
          (user' # NoUser) = (mounted' /\ SessionPersisted(localStorage'))]_vars
  /\ [][Authenticated => (user' = call'.ret /\ user' # NoUser)]_vars
  /\ [][((Called("login") \/ Called("signup")) /\ call'.threw) =>
          user' = user]_vars
  /\ [][(user' # NoUser /\ user' # user) =>
          \/ Authenticated
          \/ Called("reload")]_vars
  /\ [][(user # NoUser /\ user' = NoUser) =>
          (LogoutRan \/ Called("reload"))]_vars
  /\ [][(Called("logout") /\ ~call'.threw) => user' = NoUser]_vars

\* a login failed while a session created by an earlier login existed: the
\* session is still that of the earlier login
C14_Witness ==
  /\ call.op \in {"login", "signup"}
  /\ call.threw
  /\ ncalls = 3
  /\ user # NoUser
  /\ user # [email |-> "a@x.com"]
  /\ localStorage.token # NULL

----------------------------------------------------------------------------
(* Activity log: several open entries, frame *)

\* the positions of the open login entries of u
OpenAt(logs, u) == {i \in 1..Len(logs) : OpenLogin(logs[i], u)}

\* the least element of a non-empty set of positions
First(S) == CHOOSE i \in S : \A j \in S : i <= j

\* C15: record(u, logout) on a log with several open login entries of u
\* closes the first of them in the order of the log and leaves the others
\* open: afterwards the open entries of u are those before without the
\* first, one fewer, and the log has as many entries as before.
C15_LogoutClosesFirstOpenOnly ==
  [][\A u \in RecordUserIds :
       LET before == LogsOf(localStorage)
           after  == LogsOf(localStorage')
           open   == OpenAt(before, u)
       IN (Recorded(u, "logout") /\ Cardinality(open) >= 2) =>
            /\ Len(after) = Len(before)
            /\ OpenAt(after, u) = open \ {First(open)}
            /\ OpenCount(after, u) = OpenCount(before, u) - 1
            /\ after[First(open)].action = "logout"
            /\ after[First(open)].logoutTime # NULL
            /\ after[First(open)].id = before[First(open)].id
            /\ \A i \in 1..Len(before) :
                 i # First(open) => after[i] = before[i]
    ]_vars

\* two logins of one user and then a logout were recorded: the earlier
\* entry is closed and the later one, the last of the log, is still open
C15_Witness ==
  /\ AfterRecorded("logout")
  /\ ncalls = 3
  /\ LET logs == LogsOf(localStorage)
         n    == Len(logs)
     IN /\ n >= 2
        /\ OpenLogin(logs[n], call.args[1])
        /\ logs[n - 1].userId = call.args[1]
        /\ logs[n - 1].action = "logout"
        /\ logs[n - 1].loginTime # NULL
        /\ logs[n - 1].logoutTime # NULL

\* entry e2 is entry e1 but for its logoutTime and action
ClosedFrom(e1, e2) ==
  /\ DOMAIN e2 = DOMAIN e1
  /\ \A f \in DOMAIN e1 \ {"logoutTime", "action"} : e2[f] = e1[f]
  /\ e2.action = "logout"
  /\ e2.logoutTime # NULL

\* C16: a record(u, ..., a) call keeps the entries of the log in their
\* order (the oldest one is dropped when the log would exceed 100) and
\* changes none of them, but for the logoutTime and action of the first open
\* login entry of u when a is "logout"; entries with action "logout" and
\* entries of other user ids are never changed; a call that fails leaves
\* the stored log as it was.
C16_RecordFrame ==
  [][\A u \in RecordUserIds, a \in {"login", "logout"} :
       LET before == LogsOf(localStorage)
           after  == LogsOf(localStorage')
           open   == OpenAt(before, u)
           match  == IF a = "logout" /\ open # {} THEN First(open) ELSE 0
           grown  == IF match = 0 THEN 1 ELSE 0
           d      == Len(before) + grown - Len(after)
       IN RecordCalled(u, a) =>
            IF LogFailed(console')
            THEN localStorage'.userLogs = localStorage.userLogs
            ELSE /\ d \in {0, 1}
                 /\ d = 1 => Len(before) = MaxLogs
                 /\ \A i \in (d + 1)..Len(before) :
                      /\ i # match => after[i - d] = before[i]
                      /\ i = match => ClosedFrom(before[i], after[i - d])
                      /\ before[i].action = "logout" =>
                           after[i - d] = before[i]
                      /\ before[i].userId # u => after[i - d] = before[i]
    ]_vars

\* a logout closed an open login entry in a log that holds an entry closed
\* earlier and an open login entry of another user
C16_Witness ==
  /\ AfterRecorded("logout")
  /\ ncalls >= 2
  /\ LET logs == LogsOf(localStorage)
     IN \E i, j, k \in 1..Len(logs) :
          /\ logs[i].userId = call.args[1]
          /\ logs[i].action = "logout"
          /\ logs[i].loginTime # NULL
          /\ logs[i].logoutTime = ToISOString(now)
          /\ j # i
          /\ logs[j].action = "logout"
          /\ logs[j].userId # call.args[1]
          /\ OpenLogin(logs[k], logs[k].userId)
          /\ logs[k].userId \notin {logs[i].userId, logs[j].userId}

----------------------------------------------------------------------------
(* logout and the identifying fields *)

\* userId, email and userRole are all persisted
Identified(ls) == ls.userId # NULL /\ ls.email # NULL /\ ls.userRole # NULL

\* C17: logout() changes the activity log only when userId, email and
\* userRole are all persisted; when one of them is absent the log is left
\* as it was and the four fields are cleared all the same; a logout()
\* directly after a logout() that completed changes neither the storage nor
\* the in-memory session.
C17_LogoutEmitsOnlyWhenIdentified ==
  [][Called("logout") =>
       /\ localStorage'.userLogs # localStorage.userLogs =>
            Identified(localStorage)
       /\ ~Identified(localStorage) =>
            /\ localStorage'.userLogs = localStorage.userLogs
            /\ AuthCleared(localStorage')
       /\ (call.op = "logout" /\ ~call.threw) =>
            (localStorage' = localStorage /\ user' = user)
    ]_vars

----------------------------------------------------------------------------
(* Two writers *)

\* the log `logs` shows the event: an entry of its user with the time of
\* the event as loginTime (a login, open or closed since) or as logoutTime
\* (a logout)
ReflectedEvent(logs, event) ==
  \E i \in 1..Len(logs) :
    /\ logs[i].userId = event.userId
    /\ IF event.action = "login"
       THEN logs[i].loginTime = ToISOString(event.t)
       ELSE logs[i].logoutTime = ToISOString(event.t)
            /\ logs[i].action = "logout"

\* the log `logs` shows the event that tab w recorded last
Reflected(logs, w) == ReflectedEvent(logs, tabs[w].event)

\* tab w is in no record call and its last one wrote the log
Completed(w) == tabs[w].pc = "done" /\ ~tabs[w].loaded.threw

\* this step is the write of "userLogs" by tab o
Saved(o) == tabs[o].pc = "loaded" /\ tabs'[o].pc = "done"

\* C18: record is not atomic between tabs.  When tab o writes the log, its
\* own event is in the log; the completed event of another tab w stays in
\* the log exactly when it was in the log that tab o had loaded: an event
\* written after that load is lost, although both calls complete.  When
\* nothing was written between the load and the write of tab o (a single
\* writer) no event in the log is lost.
C18_LostUpdateOnlyWhenInterleaved ==
  [][\A o \in Writers : \A w \in Writers \ {o} :
       (Saved(o) /\ Completed(w)) =>
         /\ ReflectedEvent(LogsOf(localStorage'), tabs'[o].event)
         /\ Reflected(LogsOf(localStorage), w) =>
              ( Reflected(LogsOf(localStorage'), w)
                  <=> Reflected(tabs[o].loaded.value, w) )
         /\ tabs[o].loaded.value = LogsOf(localStorage) =>
              ( Reflected(LogsOf(localStorage), w)
                  => Reflected(LogsOf(localStorage'), w) )
    ]_vars

\* both tabs completed a record call, each loaded the log before the other
\* wrote it, and the log shows the event of one of them only
C18_Witness ==
  /\ \A w \in Writers : Completed(w)
  /\ tabs[1].loaded = tabs[2].loaded
  /\ ncalls = 2
  /\ \E o \in Writers : \E w \in Writers \ {o} :
       /\ Reflected(LogsOf(localStorage), o)
       /\ ~Reflected(LogsOf(localStorage), w)
       /\ \A i \in 1..Len(LogsOf(localStorage)) :
            LogsOf(localStorage)[i].userId # TabUserId(w)

----------------------------------------------------------------------------
(* Alternating logins and logouts *)

\* the positions of the open login entries, of whatever user
OpenAtAll(logs) ==
  {i \in 1..Len(logs) : logs[i].action = "login" /\ logs[i].logoutTime = NULL}

\* C19: when logins (or signups) with fresh user ids and logouts alternate,
\* starting with an empty log and no session, on a storage that never
\* fails, the log never holds more than one open login entry, holds none
\* after a logout, and holds one entry per login made so far (the logout
\* closes the entry of its login and adds none).
C19_AlternationKeepsOneOpen ==
  LET logs == LogsOf(localStorage)
  IN /\ Cardinality(OpenAtAll(logs)) <= 1
     /\ call.op = "logout" => OpenAtAll(logs) = {}
     /\ Len(logs) = (ncalls + 1) \div 2

----------------------------------------------------------------------------
(* The persisted role and the session shown *)

\* the in-memory session was created by login or signup: it carries a
\* userId and a role (a restored session holds the email only)
CreatedSession(usr) == usr # NoUser /\ "role" \in DOMAIN usr

\* the persisted userRole and userId are those of the created session, and
\* hasRole answers true for the role of the session
RoleOfSession(ls, usr) ==
  CreatedSession(usr) =>
    /\ ls.userRole = usr.role
    /\ ls.userId = usr.userId
    /\ HasRole(ls, usr.role, {}).ret

\* C20 as stated: whenever the in-memory session was created by login or
\* signup, the persisted userRole and userId are those of that session,
\* also after a later login or signup failed with a persistence error.
C20_PersistedRoleIsSessionRole == RoleOfSession(localStorage, user)

\* C20 amended: the persisted userRole and userId are those of the session
\* right after the login or signup that created it, and remain so over
\* every call that does not throw.  A later login or signup that fails
\* keeps the session in memory, while the persisted userRole (and userId)
\* is the one the failed call computed if the call got to write it, the old
\* one otherwise.
C20_PersistedRoleUntilFailedWrite ==
  [][ /\ Authenticated =>
           (CreatedSession(user') /\ RoleOfSession(localStorage', user'))
      /\ (RoleOfSession(localStorage, user) /\ ~call'.threw) =>
           RoleOfSession(localStorage', user')
      /\ ( /\ (Called("login") \/ Called("signup")) /\ call'.threw
           /\ CreatedSession(user) /\ RoleOfSession(localStorage, user) ) =>
           /\ user' = user
           /\ localStorage'.userRole \in {user.role, ExpectedRole}
           /\ localStorage'.userId \in {user.userId, ExpectedUserId}
           /\ localStorage'.userId # user.userId =>
                localStorage'.userRole = ExpectedRole
    ]_vars

\* login("admin@x.com") failed after it had written the role, while the
\* session of an earlier login of role user is still the one in memory
C20_Witness ==
  /\ call.op = "login" /\ call.threw
  /\ CreatedSession(user)
  /\ user.role = "user"
  /\ localStorage.userRole = "admin"
  /\ localStorage.email = user.email

====
